---------------------------- MODULE Spec2Model ----------------------------
(***************************************************************************)
(* Model of mob's process runner (src/process.h, src/process.cpp):         *)
(*   - the process builder: arg(), args(), add_arg(), arg_to_string(),     *)
(*     pipe()                                                              *)
(*   - the supervisor: run(), interrupt(), join(), read_pipes(),           *)
(*     exit_code(), ~process()                                             *)
(*   - async_pipe: read(), try_read(), check_pending()                     *)
(* Strings are sequences of one-character strings, so that concatenation,  *)
(* quoting and number formatting are computed as the code computes them.   *)
(***************************************************************************)
EXTENDS Integers, Sequences, FiniteSets, TLC

(***************************************************************************)
(* Bounds of the model.                                                    *)
(***************************************************************************)
MaxArgs == 2        \* arg() calls and elements of args() calls on one process
MaxStages == 3      \* processes handed to one pipe() call
MaxPolls == 2       \* poll timeouts of join() that are counted
MaxWrites == 2      \* output lines the child writes in all

(***************************************************************************)
(* Strings.                                                                *)
(***************************************************************************)
Digits == <<"0", "1", "2", "3", "4", "5", "6", "7", "8", "9">>

RECURSIVE to_string(_)
\* std::to_string of an unsigned value: its decimal digits
to_string(n) ==
    IF n < 10 THEN <<Digits[n + 1]>>
    ELSE to_string(n \div 10) \o <<Digits[(n % 10) + 1]>>

\* TRUE iff sub occurs in s as a contiguous substring
Contains(s, sub) ==
    \E i \in 1..(Len(s) - Len(sub) + 1) :
        SubSeq(s, i, i + Len(sub) - 1) = sub

Quote == <<"\"">>
Space == <<" ">>
PipeSep == <<" ", "|", " ">>
Returned == <<" ", "r", "e", "t", "u", "r", "n", "e", "d", " ">>

(***************************************************************************)
(* process::flags_t, process::arg_flags.                                   *)
(***************************************************************************)
allow_failure == "allow_failure"
terminate_on_interrupt == "terminate_on_interrupt"
flags_t == SUBSET {allow_failure, terminate_on_interrupt}

verbose == "verbose"
quiet == "quiet"
nospace == "nospace"
quote == "quote"
arg_flags == SUBSET {verbose, quiet, nospace, quote}

(***************************************************************************)
(* The configuration fields of class process.  A default-constructed      *)
(* process has no flags, stdout at trace and stderr at error.              *)
(***************************************************************************)
process(name, bin, cwd, flags, env, raw, cmd) ==
    [name_ |-> name, bin_ |-> bin, cwd_ |-> cwd, flags_ |-> flags,
     stdout_level_ |-> "trace", stdout_filter_ |-> "none",
     stderr_level_ |-> "error", stderr_filter_ |-> "none",
     env_ |-> env, raw_ |-> raw, cmd_ |-> cmd]

\* process::raw(cmd)
raw(cmd) == process(<<>>, <<>>, <<>>, {}, "none", cmd, <<>>)

\* process::make_cmd
make_cmd(p) ==
    IF p.raw_ # <<>> THEN p.raw_
    ELSE Quote \o p.bin_ \o Quote \o p.cmd_

\* process::make_name
make_name(p) ==
    IF p.name_ # <<>> THEN p.name_ ELSE make_cmd(p)

(***************************************************************************)
(* State.                                                                  *)
(***************************************************************************)
VARIABLES
    self,           \* the configuration fields of the process
    log_trace,      \* conf::log_trace(), the global verbose-logging switch
    nargs,          \* arg() calls and elements of args() calls so far
    lastArg,        \* <<the last arg() call>>: its inputs, the switch and cmd_ before it
    pipeIn,         \* the processes handed to the last pipe() call
    pipeOut,        \* <<the process pipe() returned>>
    handle,         \* impl_.handle holds the child's process handle
    interrupt,      \* impl_.interrupt, the flag shared with other threads
    code_,          \* code_, a DWORD
    pipes,          \* impl_.stdout_pipe and impl_.stderr_pipe
    pc,             \* where the owning thread is: idle, or a place in join()
    wait_r,         \* join(): r, the result of the last wait on the handle
    interrupted,    \* join(): the local flag
    started,        \* run() was called
    child,          \* the child process: none, running or exited
    childCode,      \* the exit code the system holds for the child
    written,        \* lines the child wrote to each stream so far
    log,            \* what reached the logger: <<reason, level, line>>
    outcome,        \* how the last join() that had a handle ended
    msg,            \* the message of the bail_out of run() or of that join()
    policy,         \* the branch of the exit-code policy join() took
    signals,        \* break signals sent by the current join()
    polls,          \* poll timeouts since the first break signal
    terminated,     \* join() called TerminateProcess
    intRunning,     \* interrupt() was called while the child was running
    intAtExit,      \* impl_.interrupt as join() read it at line 419
    dry,            \* conf::dry(), the global dry-run switch
    cmd_log,        \* what run() logged with reason context::cmd
    dtor,           \* ~process was entered
    escaped,        \* the error that left the last call of the owning thread
    filter_calls,   \* the filter structs handed to the filters, per stream
    last_os,        \* read(): what the system calls of the last read() of
                    \* this iteration of join()'s loop returned
    last_pid,       \* join(): <<pid>>, what GetProcessId returned in this call
    lastArgs        \* <<the last args() call>>: its inputs, the switch and cmd_ before it

builderVars == <<self, log_trace, nargs, lastArg, lastArgs>>
pipeVars == <<pipeIn, pipeOut>>
configVars == <<self, log_trace, nargs, lastArg, pipeIn, pipeOut, dry,
                lastArgs>>
joinVars == <<pc, wait_r, interrupted, outcome, msg, policy, signals, polls,
              terminated>>
childVars == <<child, childCode, written>>
superVars == <<handle, interrupt, code_, pipes, pc, wait_r, interrupted, started,
               child, childCode, written, log, outcome, msg, policy,
               signals, polls, terminated, intRunning, intAtExit, cmd_log,
               dtor, escaped, filter_calls, last_os, last_pid>>
vars == <<self, log_trace, nargs, lastArg, pipeIn, pipeOut, handle,
          interrupt, code_, pipes, pc, wait_r, interrupted, started, child,
          childCode, written, log, outcome, msg, policy, signals, polls,
          terminated, intRunning, intAtExit, dry, cmd_log,
          dtor, escaped, filter_calls, last_os, last_pid, lastArgs>>

None == "none"

(***************************************************************************)
(* The builder: arg(), add_arg(), arg_to_string().                         *)
(***************************************************************************)
\* process::arg_to_string: the const char*, std::string and url overloads
\* quote on force_quote, the fs::path overload always quotes
arg_to_string(kind, s, force_quote) ==
    IF kind = "path" THEN Quote \o s \o Quote
    ELSE IF force_quote THEN Quote \o s \o Quote
    ELSE s

\* add_arg without the test of the key's last character
add_arg_no_eq(p, k, v, f, trace) ==
    IF verbose \in f /\ ~trace THEN p
    ELSE IF quiet \in f /\ trace THEN p
    ELSE IF k = <<>> /\ v = <<>> THEN p
    ELSE IF k = <<>> THEN [p EXCEPT !.cmd_ = @ \o Space \o v]
    ELSE IF nospace \in f THEN [p EXCEPT !.cmd_ = @ \o Space \o k \o v]
    ELSE [p EXCEPT !.cmd_ = @ \o Space \o k \o Space \o v]

\* add_arg without the test of the quiet flag
add_arg_no_quiet(p, k, v, f, trace) ==
    IF verbose \in f /\ ~trace THEN p
    ELSE IF k = <<>> /\ v = <<>> THEN p
    ELSE IF k = <<>> THEN [p EXCEPT !.cmd_ = @ \o Space \o v]
    ELSE IF nospace \in f \/ k[Len(k)] = "="
        THEN [p EXCEPT !.cmd_ = @ \o Space \o k \o v]
    ELSE [p EXCEPT !.cmd_ = @ \o Space \o k \o Space \o v]

\* process::add_arg; trace is conf::log_trace() at the call
add_arg(p, k, v, f, trace) ==
    IF verbose \in f /\ ~trace THEN p
    ELSE IF quiet \in f /\ trace THEN p
    ELSE IF k = <<>> /\ v = <<>> THEN p
    ELSE IF k = <<>> THEN [p EXCEPT !.cmd_ = @ \o Space \o v]
    ELSE IF nospace \in f \/ k[Len(k)] = "="
        THEN [p EXCEPT !.cmd_ = @ \o Space \o k \o v]
    ELSE [p EXCEPT !.cmd_ = @ \o Space \o k \o Space \o v]

\* process::arg(name, value, f); arg(value, f) is the call with name = ""
arg(p, k, kind, v, f, trace) ==
    add_arg(p, k, arg_to_string(kind, v, quote \in f), f, trace)

RECURSIVE args(_, _, _, _)
\* process::args(v, f) for a container of plain values: add_arg(e, "", f)
\* for each element e, in order
args(p, v, f, trace) ==
    IF v = <<>> THEN p
    ELSE args(add_arg(p, v[1], <<>>, f, trace), SubSeq(v, 2, Len(v)), f, trace)

\* Inputs of the arg() calls: keys as in boost::do_b2, string and path values
With == <<"-", "-", "w", "i", "t", "h">>
Stagedir == <<"-", "-", "s", "t", "a", "g", "e", "d", "i", "r", "=">>
Thread == <<"t", "h", "r", "e", "a", "d">>
Lib == <<"C", ":", "\\", "l", "i", "b">>
ArgKeys == {<<>>, With, Stagedir}
ArgValues == {<<"string", <<>>>>, <<"string", Thread>>, <<"path", Lib>>,
              <<"path", <<>>>>}

B2 == <<"b", "2">>

Streams == {"stdout_pipe", "stderr_pipe"}

\* async_pipe::async_pipe: nothing pending.  outstanding counts the
\* overlapped reads issued on the handle whose result was not taken yet,
\* result is how the pending request completed, buffer_ what it read, and
\* unread what the child wrote that no request has read.
new_async_pipe ==
    [pending_ |-> FALSE, outstanding |-> 0, result |-> None,
     buffer_ |-> <<>>, unread |-> <<>>]

\* a DWORD is <<high word, low word>>
DWORD(hi, lo) == <<hi, lo>>

\* process::process: no handle, the flag clear, code_ 0
Constructed ==
    /\ handle = FALSE
    /\ interrupt = FALSE
    /\ code_ = DWORD(0, 0)
    /\ pipes = [ch \in Streams |-> new_async_pipe]
    /\ pc = "idle"
    /\ wait_r = None
    /\ interrupted = FALSE
    /\ started = FALSE
    /\ child = "none"
    /\ childCode = DWORD(0, 0)
    /\ written = [ch \in Streams |-> 0]
    /\ log = <<>>
    /\ outcome = None
    /\ msg = <<>>
    /\ policy = None
    /\ signals = 0
    /\ polls = 0
    /\ terminated = FALSE
    /\ intRunning = FALSE
    /\ intAtExit = FALSE
    /\ cmd_log = <<>>
    /\ dtor = FALSE
    /\ escaped = <<>>
    /\ filter_calls = [ch \in Streams |-> <<>>]
    /\ last_os = [w |-> None, e |-> None]
    /\ last_pid = <<>>

InitArgs ==
    /\ self = process(<<>>, B2, <<>>, {}, None, <<>>, <<>>)
    /\ Constructed
    /\ dry = FALSE
    /\ log_trace \in BOOLEAN
    /\ nargs = 0
    /\ lastArg = <<>>
    /\ lastArgs = <<>>
    /\ pipeIn = <<>>
    /\ pipeOut = <<>>

\* a call of arg(k, v, f) or, with k = "", of arg(v, f)
Arg ==
    /\ nargs < MaxArgs
    /\ \E k \in ArgKeys, kv \in ArgValues, f \in arg_flags :
        /\ self' = arg(self, k, kv[1], kv[2], f, log_trace)
        /\ lastArg' = <<[k |-> k, kind |-> kv[1], v |-> kv[2], f |-> f,
                         trace |-> log_trace, before |-> self.cmd_]>>
    /\ nargs' = nargs + 1
    /\ UNCHANGED <<log_trace, dry, lastArgs, pipeVars, superVars>>

\* the configuration's verbose-logging switch changes between two calls
SetLogTrace ==
    /\ log_trace' = ~log_trace
    /\ UNCHANGED <<self, nargs, lastArg, lastArgs, dry, pipeVars, superVars>>

NextArgs == Arg \/ SetLogTrace

SpecArgs == InitArgs /\ [][NextArgs]_vars

(***************************************************************************)
(* args() with a container of plain values.                                *)
(***************************************************************************)
RECURSIVE SeqsUpTo(_, _)
\* the sequences of length n or less over S
SeqsUpTo(S, n) ==
    IF n = 0 THEN {<<>>}
    ELSE SeqsUpTo(S, n - 1)
         \cup {<<x>> \o q : x \in S,
                             q \in {r \in SeqsUpTo(S, n - 1) : Len(r) = n - 1}}

\* the elements of the collections: strings as boost::do_b2 makes them,
\* one that ends in '=', and the empty string
ArgElems == {<<>>, With, Stagedir}

\* a call of args(v, f) with a container of strings
Args ==
    /\ nargs < MaxArgs
    /\ \E v \in SeqsUpTo(ArgElems, MaxArgs - nargs), f \in arg_flags :
        /\ self' = args(self, v, f, log_trace)
        /\ lastArgs' = <<[v |-> v, f |-> f, trace |-> log_trace,
                          before |-> self.cmd_]>>
        /\ nargs' = nargs + Len(v)
    /\ UNCHANGED <<log_trace, dry, lastArg, pipeVars, superVars>>

InitColl == InitArgs

NextColl == Args \/ SetLogTrace

SpecColl == InitColl /\ [][NextColl]_vars

(***************************************************************************)
(* pipe(): process.h's variadic template, over the sequence of its         *)
(* arguments.                                                              *)
(***************************************************************************)
\* pipe_into that also takes the working directory and flags of the stage
pipe_into_all(r, p) ==
    [r EXCEPT !.raw_ = make_cmd(r) \o PipeSep \o make_cmd(p),
              !.cwd_ = p.cwd_, !.flags_ = p.flags_]

\* process::pipe_into, on the copy r
pipe_into(r, p) ==
    [r EXCEPT !.raw_ = make_cmd(r) \o PipeSep \o make_cmd(p)]

RECURSIVE pipe(_)
\* process::pipe(p1, p2, ps...): r is a copy of p1; the process the
\* recursive call pipe(r, ps...) returns is a temporary that is dropped
pipe(ps) ==
    IF Len(ps) = 1 THEN ps[1]
    ELSE LET r == pipe_into(ps[1], ps[2])
             dropped == pipe(<<r>> \o SubSeq(ps, 3, Len(ps)))
         IN  r

\* The stages: raw commands and a binary with arguments, with settings that
\* differ from one stage to the next
StageA == [raw(<<"a">>) EXCEPT !.cwd_ = <<"x">>, !.env_ = "vs",
                               !.flags_ = {allow_failure},
                               !.stdout_level_ = "debug",
                               !.stdout_filter_ = "f1"]
StageB == [raw(<<"b">>) EXCEPT !.cwd_ = <<"y">>,
                               !.flags_ = {terminate_on_interrupt},
                               !.stderr_level_ = "warning",
                               !.stderr_filter_ = "f2"]
StageB2 == [raw(<<"b">>) EXCEPT !.env_ = "vs", !.name_ = <<"n">>]
StageC == raw(<<"c">>)
StageBin == process(<<>>, B2, <<"z">>, {}, None, <<>>, <<" ", "-", "q">>)
Stages == {StageA, StageB, StageB2, StageC, StageBin}

RECURSIVE SeqsOf(_, _)
\* the sequences of length n over S
SeqsOf(S, n) ==
    IF n = 0 THEN {<<>>}
    ELSE {Append(q, x) : q \in SeqsOf(S, n - 1), x \in S}

InitPipe == InitArgs

\* a call of pipe(p1, ..., pn); the arguments are const references
Pipe ==
    /\ pipeIn = <<>>
    /\ \E n \in 1..MaxStages : \E ps \in SeqsOf(Stages, n) :
        /\ pipeOut' = <<pipe(ps)>>
        /\ pipeIn' = ps
    /\ UNCHANGED <<builderVars, dry, superVars>>

NextPipe == Pipe

SpecPipe == InitPipe /\ [][NextPipe]_vars

(***************************************************************************)
(* Claims about pipe().                                                    *)
(***************************************************************************)
RECURSIVE JoinedTexts(_)
\* the command texts of the stages, in order, joined by " | "
JoinedTexts(ps) ==
    IF Len(ps) = 1 THEN make_cmd(ps[1])
    ELSE JoinedTexts(SubSeq(ps, 1, Len(ps) - 1)) \o PipeSep
             \o make_cmd(ps[Len(ps)])

\* C7: for every n >= 1, the process pipe(p1, ..., pn) returns resolves to
\* the command texts of all n stages, in order, joined by " | ".
C7_PipeJoinsAllStages ==
    pipeIn # <<>> => make_cmd(pipeOut[1]) = JoinedTexts(pipeIn)

\* the settings of a process other than its command text
Settings(p) ==
    <<p.cwd_, p.env_, p.flags_, p.stdout_level_, p.stdout_filter_,
      p.stderr_level_, p.stderr_filter_>>

\* C8: the process pipe(p1, ..., pn) returns has p1's working directory,
\* environment, flags, log levels and filters, and is the same whatever the
\* settings of p2..pn are: replacing a later stage by any process with the
\* same command text gives the same result.
C8_PipeSettingsFromFirst ==
    pipeIn # <<>> =>
        /\ Settings(pipeOut[1]) = Settings(pipeIn[1])
        /\ \A qs \in SeqsOf(Stages, Len(pipeIn)) :
              (/\ qs[1] = pipeIn[1]
               /\ \A i \in 1..Len(qs) : make_cmd(qs[i]) = make_cmd(pipeIn[i]))
              => pipe(qs) = pipeOut[1]

\* a pipe() call of two or more stages whose second stage differs from the
\* first in working directory, environment, flags, levels and filters
C8_Witness ==
    /\ Len(pipeIn) >= 2
    /\ pipeIn[1] = StageA
    /\ pipeIn[2] = StageB
    /\ pipeOut[1].cwd_ = <<"x">>
    /\ pipeOut[1].raw_ = <<"a", " ", "|", " ", "b">>

(***************************************************************************)
(* Claims about arg().                                                     *)
(***************************************************************************)
\* the value of a call as the quoting rule renders it
RenderedValue(a) ==
    IF a.kind = "path" \/ quote \in a.f THEN Quote \o a.v \o Quote ELSE a.v

\* the fragment of a call by the join rule
JoinRule(a) ==
    LET v == RenderedValue(a)
    IN  IF a.k = <<>> THEN v
        ELSE IF nospace \in a.f \/ a.k[Len(a.k)] = "=" THEN a.k \o v
        ELSE a.k \o Space \o v

\* the inclusion rule, on the switch as it was when arg() was called
Included(a) ==
    /\ verbose \in a.f => a.trace
    /\ quiet \in a.f => ~a.trace
    /\ ~(a.k = <<>> /\ RenderedValue(a) = <<>>)

\* C9: an included arg(key, value, flags) appends one fragment built by the
\* join rule (value alone for an empty key; key and value with no space
\* when nospace is set or the key ends in '='; one space otherwise), path
\* values always quoted and string values only with the quote flag; so
\* arg("--stagedir=", path) gives --stagedir="<path>" and
\* arg("--with", "thread") gives --with thread.
C9_ArgJoinRule ==
    nargs > 0 =>
        LET a == lastArg[1]
        IN  /\ Included(a) => self.cmd_ = a.before \o Space \o JoinRule(a)
            /\ (a.k = Stagedir /\ a.kind = "path" /\ a.f = {}) =>
                  self.cmd_ = a.before \o Space \o Stagedir
                                  \o Quote \o a.v \o Quote
            /\ (a.k = With /\ a.kind = "string" /\ a.v = Thread /\ a.f = {}) =>
                  self.cmd_ = a.before \o Space \o With \o Space \o Thread

\* arg("--stagedir=", path) after arg("--with", "thread")
C9_Witness ==
    /\ nargs = 2
    /\ lastArg[1].k = Stagedir
    /\ lastArg[1].kind = "path"
    /\ lastArg[1].f = {}
    /\ make_cmd(self) =
          Quote \o B2 \o Quote \o Space \o With \o Space \o Thread
              \o Space \o Stagedir \o Quote \o Lib \o Quote

\* C10: a fragment tagged verbose is in the command only when the
\* verbose-logging switch was on at the arg() call, one tagged quiet only
\* when it was off, one with neither tag always, unless key and value are
\* both empty; a later change of the switch changes nothing.
C10_ArgInclusionRule ==
    nargs > 0 =>
        LET a == lastArg[1]
        IN  /\ Included(a) <=> self.cmd_ # a.before
            /\ Included(a) => Contains(make_cmd(self), JoinRule(a))
            /\ ~Included(a) => self.cmd_ = a.before

\* a verbose fragment added with the switch on, the switch now off, and a
\* quiet fragment dropped before it
C10_Witness ==
    /\ nargs > 0
    /\ verbose \in lastArg[1].f
    /\ quiet \notin lastArg[1].f
    /\ lastArg[1].trace
    /\ ~log_trace
    /\ self.cmd_ # lastArg[1].before

(***************************************************************************)
(* DWORD arithmetic, on <<high word, low word>>.                           *)
(***************************************************************************)
KillCode == 65535   \* 0xffff, the exit code join() gives TerminateProcess

RECURSIVE dword_to_string(_)
\* std::to_string(code_): the decimal digits of the unsigned 32-bit value,
\* by long division of the two words by 10
dword_to_string(d) ==
    IF d[1] = 0 THEN to_string(d[2])
    ELSE LET t == (d[1] % 10) * 2^16 + d[2]
         IN  dword_to_string(DWORD(d[1] \div 10, t \div 10))
                 \o <<Digits[(t % 10) + 1]>>

\* exit_code that returns the low word only
exit_code_low(c) == c[2]

\* process::exit_code: static_cast<int>(code_), a signed 32-bit value
exit_code(c) ==
    IF c[1] >= 2^15 THEN (c[1] - 2^16) * 2^16 + c[2]
    ELSE c[1] * 2^16 + c[2]

\* the exit codes of the child: success, a failure, and the code of a
\* child that died of an access violation (0xC0000005)
ExitCodes == {DWORD(0, 0), DWORD(0, 7), DWORD(2^15 + 2^14, 5)}

(***************************************************************************)
(* async_pipe.                                                             *)
(***************************************************************************)
ReadFailed == <<"async_pipe read failed">>
PipeWaitFailed == <<"WaitForSingleObject in async_pipe failed">>
OverlappedFailed == <<"GetOverlappedResult failed in async_pipe">>
ReadErrors == {ReadFailed, PipeWaitFailed, OverlappedFailed}

\* how the system answers the calls of one read(): as the state of the pipe
\* has it, with a failed wait on the event, or with an error of the handle
SysAnswers == {"usual", "wait_failed", "io_error"}

\* ReadFile on the handle, line 111: what GetLastError reports, "ok" when
\* the call succeeded.  open: the child still holds the write end.
ReadFile(c, open, sys) ==
    IF sys = "io_error" THEN "ERROR_INVALID_HANDLE"
    ELSE IF c.unread # <<>> THEN "ok"
    ELSE IF open THEN "ERROR_IO_PENDING"
    ELSE "ERROR_BROKEN_PIPE"

\* WaitForSingleObject on the event of the pending request, line 146
WaitForSingleObject(c, sys) ==
    IF sys = "wait_failed" THEN "WAIT_FAILED"
    ELSE IF c.result # None THEN "WAIT_OBJECT_0"
    ELSE "WAIT_TIMEOUT"

\* GetOverlappedResult on the pending request, line 153
GetOverlappedResult(c, sys) ==
    IF sys = "io_error" THEN "ERROR_INVALID_HANDLE"
    ELSE IF c.result = "data" THEN "ok"
    ELSE IF c.result = "broken" THEN "ERROR_BROKEN_PIPE"
    ELSE "ERROR_IO_INCOMPLETE"

\* try_read that takes a broken pipe for an error
try_read_strict(c, open, sys) ==
    LET e == ReadFile(c, open, sys)
    IN  IF e = "ok"
        THEN [pipe |-> [c EXCEPT !.unread = <<>>], out |-> c.unread,
              raised |-> <<>>, w |-> None, e |-> e]
        ELSE IF e = "ERROR_IO_PENDING"
        THEN [pipe |-> [c EXCEPT !.pending_ = TRUE, !.outstanding = @ + 1,
                                 !.result = None],
              out |-> <<>>, raised |-> <<>>, w |-> None, e |-> e]
        ELSE [pipe |-> c, out |-> <<>>, raised |-> ReadFailed, w |-> None,
              e |-> e]

\* async_pipe::try_read
try_read(c, open, sys) ==
    LET e == ReadFile(c, open, sys)
    IN  IF e = "ok"
        THEN [pipe |-> [c EXCEPT !.unread = <<>>], out |-> c.unread,
              raised |-> <<>>, w |-> None, e |-> e]
        ELSE IF e = "ERROR_IO_PENDING"
        THEN [pipe |-> [c EXCEPT !.pending_ = TRUE, !.outstanding = @ + 1,
                                 !.result = None],
              out |-> <<>>, raised |-> <<>>, w |-> None, e |-> e]
        ELSE IF e = "ERROR_BROKEN_PIPE"
        THEN [pipe |-> c, out |-> <<>>, raised |-> <<>>, w |-> None, e |-> e]
        ELSE [pipe |-> c, out |-> <<>>, raised |-> ReadFailed, w |-> None,
              e |-> e]

\* async_pipe::check_pending
check_pending(c, sys) ==
    LET w == WaitForSingleObject(c, sys)
        e == GetOverlappedResult(c, sys)
    IN  IF w = "WAIT_FAILED"
        THEN [pipe |-> c, out |-> <<>>, raised |-> PipeWaitFailed, w |-> w,
              e |-> None]
        ELSE IF e = "ok"
        THEN [pipe |-> [c EXCEPT !.pending_ = FALSE, !.outstanding = @ - 1,
                                 !.result = None, !.buffer_ = <<>>],
              out |-> c.buffer_, raised |-> <<>>, w |-> w, e |-> e]
        ELSE IF e \in {"ERROR_IO_INCOMPLETE", "WAIT_TIMEOUT",
                       "ERROR_BROKEN_PIPE"}
        THEN [pipe |-> c, out |-> <<>>, raised |-> <<>>, w |-> w, e |-> e]
        ELSE [pipe |-> c, out |-> <<>>, raised |-> OverlappedFailed,
              w |-> w, e |-> e]

\* read that issues a new request whether or not one is pending
read_always(c, open, sys) == try_read(c, open, sys)

\* async_pipe::read
read(c, open, sys) ==
    IF c.pending_ THEN check_pending(c, sys) ELSE try_read(c, open, sys)

\* the child's write end is closed: a request still waiting completes with
\* ERROR_BROKEN_PIPE
close_writer(c) ==
    IF c.outstanding > 0 /\ c.result = None
    THEN [c EXCEPT !.result = "broken"] ELSE c

\* the child writes a line: a waiting request completes with it, otherwise
\* it stays in the pipe
write_line(c, line) ==
    IF c.outstanding > 0 /\ c.result = None
    THEN [c EXCEPT !.result = "data", !.buffer_ = <<line>>]
    ELSE [c EXCEPT !.unread = Append(@, line)]

(***************************************************************************)
(* The supervisor: run(), interrupt(), join().                             *)
(***************************************************************************)
FailedToStart == <<"failed to start">>
FailedToWait == <<"failed to wait on process">>

Min(a, b) == IF a < b THEN a ELSE b

Boost == <<"b", "o", "o", "s", "t">>
Src == <<"s", "r", "c">>
CdPrompt == <<">", " ", "c", "d", " ">>
Prompt == <<">", " ">>

\* the processes that are run: one with no name that runs in the current
\* directory, and one with a name, a working directory and a filter on each
\* stream; each with every combination of flags
Configured ==
    {process(<<>>, B2, <<>>, f, None, <<>>, <<" ", "-", "q">>) :
        f \in flags_t}
    \cup
    {[process(Boost, B2, Src, f, None, <<>>, <<" ", "-", "q">>)
        EXCEPT !.stdout_filter_ = "f1", !.stderr_filter_ = "f2"] :
        f \in flags_t}

Init ==
    /\ self \in Configured
    /\ dry \in BOOLEAN
    /\ log_trace = FALSE
    /\ nargs = 0
    /\ lastArg = <<>>
    /\ lastArgs = <<>>
    /\ pipeIn = <<>>
    /\ pipeOut = <<>>
    /\ Constructed

\* run(), lines 333-337: the debug lines run() logs with reason cmd
run_log(p) ==
    (IF p.cwd_ # <<>> THEN <<<<"cmd", "debug", CdPrompt \o p.cwd_>>>>
     ELSE <<>>)
    \o <<<<"cmd", "debug", Prompt \o make_cmd(p)>>>>

\* run that goes on to do_run in a dry run too
spawns_always(d) == TRUE

\* run(), lines 339-342: do_run is reached unless this is a dry run
spawns(d) == ~d

\* ~process, lines 218-220: catch (...) with an empty body
catch_none(e) == e

catch_all(e) == <<>>

\* the error that leaves a call in which e was raised: join() is called by
\* ~process inside its try block
thrown(e, in_dtor) == IF in_dtor THEN catch_all(e) ELSE e

\* the object was destroyed
destroyed == dtor /\ pc = "idle"

\* process::run and do_run: the child is created, or CreateProcess fails
Run ==
    /\ pc = "idle"
    /\ ~dtor
    /\ ~started
    /\ started' = TRUE
    /\ cmd_log' = cmd_log \o run_log(self)
    /\ IF spawns(dry)
       THEN \/ /\ handle' = TRUE
               /\ child' = "running"
               /\ UNCHANGED <<msg, escaped>>
            \/ /\ msg' = FailedToStart
               /\ escaped' = FailedToStart
               /\ UNCHANGED <<handle, child>>
       ELSE UNCHANGED <<handle, child, msg, escaped>>
    /\ UNCHANGED <<configVars, filter_calls, last_os, last_pid, dtor,
                   interrupt, code_, pipes, pc, wait_r,
                   interrupted, childCode, written, log, outcome, policy,
                   signals, polls, terminated, intRunning, intAtExit>>

\* interrupt that terminates the child itself
InterruptKills ==
    /\ ~destroyed
    /\ interrupt' = TRUE
    /\ intRunning' = (intRunning \/ child = "running")
    /\ terminated' = TRUE
    /\ child' = IF child = "running" THEN "exited" ELSE child
    /\ UNCHANGED <<configVars, cmd_log, last_pid, filter_calls, last_os, dtor,
                   escaped, handle, code_, pipes, pc, wait_r, interrupted,
                   started, childCode, written, log, outcome, msg, policy,
                   signals, polls, intAtExit>>

\* process::interrupt, from any thread
Interrupt ==
    /\ ~destroyed
    /\ interrupt' = TRUE
    /\ intRunning' = (intRunning \/ child = "running")
    /\ UNCHANGED <<configVars, cmd_log, last_pid, filter_calls, last_os, dtor,
                   escaped, handle, code_, pipes, pc, wait_r, interrupted,
                   started, child, childCode, written, log, outcome, msg,
                   policy, signals, polls, terminated, intAtExit>>

\* the child writes a line to one of its streams
ChildWrite ==
    /\ child = "running"
    /\ \E ch \in Streams :
        /\ written["stdout_pipe"] + written["stderr_pipe"] < MaxWrites
        /\ written' = [written EXCEPT ![ch] = @ + 1]
        /\ pipes' = [pipes EXCEPT ![ch] =
                                write_line(@, <<ch, written[ch] + 1>>)]
    /\ UNCHANGED <<configVars, cmd_log, last_pid, filter_calls, last_os, dtor,
                   escaped, handle, interrupt, code_, pc, wait_r, interrupted,
                   started, child, childCode, log, outcome, msg, policy,
                   signals, polls, terminated, intRunning, intAtExit>>

\* the child exits on its own
ChildExit ==
    /\ child = "running"
    /\ child' = "exited"
    /\ childCode' \in ExitCodes
    /\ pipes' = [ch \in Streams |-> close_writer(pipes[ch])]
    /\ UNCHANGED <<configVars, cmd_log, last_pid, filter_calls, last_os, dtor,
                   escaped, handle, interrupt, code_, pc, wait_r, interrupted,
                   started, written, log, outcome, msg, policy, signals,
                   polls, terminated, intRunning, intAtExit>>

\* join(), lines 396-403: nothing to do without a handle
join_enter ==
    /\ escaped' = <<>>
    /\ last_os' = [w |-> None, e |-> None]
    /\ IF ~handle
       THEN UNCHANGED <<pc, interrupted, outcome, msg, policy, signals, polls,
                        last_pid>>
       ELSE /\ pc' = "wait"
            /\ msg' = <<>>
            /\ last_pid' = <<>>
            /\ interrupted' = FALSE
            /\ outcome' = None
            /\ policy' = None
            /\ signals' = 0
            /\ polls' = 0
    /\ UNCHANGED <<configVars, cmd_log, filter_calls, handle, interrupt,
                   code_, pipes, wait_r, started, childVars, log,
                   terminated, intRunning, intAtExit>>

\* a call of join() by the owner of the process
JoinBegin ==
    /\ pc = "idle"
    /\ ~dtor
    /\ join_enter
    /\ dtor' = dtor

\* process::~process: the object goes away, join() is called
Destroy ==
    /\ pc = "idle"
    /\ ~dtor
    /\ dtor' = TRUE
    /\ join_enter

\* join(), line 407 and lines 484-486: the wait on the handle
JoinWait ==
    /\ pc = "wait"
    /\ \/ /\ child = "exited"
          /\ wait_r' = "WAIT_OBJECT_0"
          /\ pc' = "read_stdout"
          /\ UNCHANGED <<handle, outcome, msg, polls, escaped>>
       \/ /\ child = "running"
          /\ wait_r' = "WAIT_TIMEOUT"
          /\ pc' = "read_stdout"
          /\ polls' = IF signals > 0 THEN Min(polls + 1, MaxPolls) ELSE polls
          /\ UNCHANGED <<handle, outcome, msg, escaped>>
       \/ /\ wait_r' = "WAIT_FAILED"
          /\ handle' = FALSE
          /\ outcome' = "fatal"
          /\ msg' = FailedToWait
          /\ escaped' = thrown(FailedToWait, dtor)
          /\ pc' = "idle"
          /\ polls' = polls
    /\ UNCHANGED <<configVars, cmd_log, last_pid, filter_calls, last_os, dtor,
                   interrupt, code_, pipes, interrupted, started, childVars,
                   log, policy, signals, terminated, intRunning, intAtExit>>

\* the filters installed on the named process: f1 drops the first line of
\* its stream, f2 lowers every line to debug
call_filter(h, f) ==
    IF h = "f1"
    THEN IF f.line[2] = 1 THEN [f EXCEPT !.ignore = TRUE] ELSE f
    ELSE [f EXCEPT !.lv = "debug"]

\* the filter installed on the stream, "none" for an empty std::function
filter_of(ch) ==
    IF ch = "stdout_pipe" THEN self.stdout_filter_ ELSE self.stderr_filter_

\* a filter struct that starts with ignore set
filter_ignoring(ch, line) ==
    IF ch = "stdout_pipe"
    THEN [line |-> line, r |-> "std_out", lv |-> self.stdout_level_,
          ignore |-> TRUE]
    ELSE [line |-> line, r |-> "std_err", lv |-> self.stderr_level_,
          ignore |-> TRUE]

\* read_pipes, lines 500 and 515: the filter struct made for a line
filter(ch, line) ==
    IF ch = "stdout_pipe"
    THEN [line |-> line, r |-> "std_out", lv |-> self.stdout_level_,
          ignore |-> FALSE]
    ELSE [line |-> line, r |-> "std_err", lv |-> self.stderr_level_,
          ignore |-> FALSE]

\* read_pipes, lines 502-507 and 517-522: the struct after the filter, if
\* there is one, has seen it
filtered(ch, line) ==
    IF filter_of(ch) # None
    THEN call_filter(filter_of(ch), filter(ch, line))
    ELSE filter(ch, line)

\* the structs read_pipes hands to the stream's filter for these lines
handed(ch, lines) ==
    IF filter_of(ch) # None
    THEN [i \in 1..Len(lines) |-> filter(ch, lines[i])]
    ELSE <<>>

\* logged that hands the lines of a read to the logger last line first
logged_reversed(ch, lines) ==
    LET fs == [i \in 1..Len(lines) |-> filtered(ch, lines[Len(lines) + 1 - i])]
        dropped(f) == filter_of(ch) # None /\ f.ignore
        kept == SelectSeq(fs, LAMBDA f : ~dropped(f))
    IN  [i \in 1..Len(kept) |-> <<kept[i].r, kept[i].lv, kept[i].line>>]

\* logged that forwards the lines a filter told it to ignore
logged_all(ch, lines) ==
    [i \in 1..Len(lines) |->
        <<filtered(ch, lines[i]).r, filtered(ch, lines[i]).lv, lines[i]>>]

\* the lines of one read, as read_pipes hands them to the logger: a line is
\* dropped when a filter is installed and has set ignore (lines 505-506),
\* and is logged otherwise (lines 509 and 524)
logged(ch, lines) ==
    LET fs == [i \in 1..Len(lines) |-> filtered(ch, lines[i])]
        dropped(f) == filter_of(ch) # None /\ f.ignore
        kept == SelectSeq(fs, LAMBDA f : ~dropped(f))
    IN  [i \in 1..Len(kept) |-> <<kept[i].r, kept[i].lv, kept[i].line>>]

\* read_pipes, one stream: read(), then the filter and the logger for each
\* of its lines; or a bail_out of read() (try_read line 131, check_pending
\* lines 150 and 177) that leaves join() with the handle still held
ReadPipe(ch, next) ==
    \E sys \in SysAnswers :
        LET res == read(pipes[ch], child = "running", sys)
        IN  /\ last_os' = [w |-> res.w, e |-> res.e]
            /\ IF res.raised = <<>>
               THEN /\ pipes' = [pipes EXCEPT ![ch] = res.pipe]
                    /\ log' = log \o logged(ch, res.out)
                    /\ filter_calls' = [filter_calls EXCEPT ![ch] =
                                            @ \o handed(ch, res.out)]
                    /\ pc' = next
                    /\ UNCHANGED <<outcome, msg, escaped>>
               ELSE /\ outcome' = "fatal"
                    /\ msg' = res.raised
                    /\ escaped' = thrown(res.raised, dtor)
                    /\ pc' = "idle"
                    /\ UNCHANGED <<pipes, log, filter_calls>>

\* read_pipes, lines 497-510
ReadStdout ==
    /\ pc = "read_stdout"
    /\ ReadPipe("stdout_pipe", "read_stderr")
    /\ UNCHANGED <<configVars, cmd_log, last_pid, dtor, handle, interrupt,
                   code_, wait_r, interrupted, started, childVars, policy,
                   signals, polls, terminated, intRunning, intAtExit>>

\* read_pipes, lines 512-525
ReadStderr ==
    /\ pc = "read_stderr"
    /\ ReadPipe("stderr_pipe",
                IF wait_r = "WAIT_OBJECT_0" THEN "exited" ELSE "timeout")
    /\ UNCHANGED <<configVars, cmd_log, last_pid, dtor, handle, interrupt,
                   code_, wait_r, interrupted, started, childVars, policy,
                   signals, polls, terminated, intRunning, intAtExit>>

\* judge that looks at no interrupt flag
judge_uninterrupted(flags, code, intr) ==
    IF code # DWORD(0, 0)
    THEN IF allow_failure \in flags THEN "allowed" ELSE "fatal"
    ELSE "success"

\* judge that lets no failure through
judge_strict(flags, code, intr) ==
    IF intr THEN "skipped"
    ELSE IF code # DWORD(0, 0) THEN "fatal"
    ELSE "success"

\* join(), lines 419-438: what becomes of an exit with this code
judge(flags, code, intr) ==
    IF intr THEN "skipped"
    ELSE IF code # DWORD(0, 0)
    THEN IF allow_failure \in flags THEN "allowed" ELSE "fatal"
    ELSE "success"

\* the message with the command in place of the name
returned_message_cmd(p, code) ==
    make_cmd(p) \o Returned \o dword_to_string(code)

\* join(), line 434: the message of the fatal error
returned_message(p, code) ==
    make_name(p) \o Returned \o dword_to_string(code)

\* join(), lines 409-439: the child has exited
JoinExited ==
    /\ pc = "exited"
    /\ code_' = childCode
    /\ intAtExit' = interrupt
    /\ policy' = judge(self.flags_, code_', interrupt)
    /\ IF policy' = "fatal"
       THEN /\ outcome' = "fatal"
            /\ msg' = returned_message(self, code_')
            /\ escaped' = thrown(msg', dtor)
       ELSE /\ outcome' = "returned"
            /\ UNCHANGED <<msg, escaped>>
    /\ handle' = FALSE
    /\ pc' = "idle"
    /\ last_os' = [w |-> None, e |-> None]
    /\ UNCHANGED <<configVars, cmd_log, last_pid, filter_calls, dtor,
                   interrupt, pipes, wait_r, interrupted, started, childVars,
                   log, signals, polls, terminated, intRunning>>

\* on_timeout that sends the signal again on every timeout
on_timeout_again(flags, intr, done, pid) ==
    IF intr
    THEN IF terminate_on_interrupt \in flags THEN "terminate"
         ELSE IF pid = 0 THEN "terminate"
         ELSE "signal"
    ELSE "continue"

\* on_timeout that sends the signal to the process id 0
on_timeout_signal_zero(flags, intr, done, pid) ==
    IF intr /\ ~done
    THEN IF terminate_on_interrupt \in flags THEN "terminate" ELSE "signal"
    ELSE "continue"

\* join(), lines 445-459: GetProcessId is called when the interrupt is
\* handled without terminate_on_interrupt
asks_pid(flags, intr, done) ==
    intr /\ ~done /\ terminate_on_interrupt \notin flags

\* on_timeout that never terminates because of the flag
on_timeout_graceful(flags, intr, done, pid) ==
    IF intr /\ ~done
    THEN IF pid = 0 THEN "terminate" ELSE "signal"
    ELSE "continue"

\* join(), lines 445-481: what a timeout of the wait leads to; done is the
\* local flag interrupted, pid what GetProcessId returned
on_timeout(flags, intr, done, pid) ==
    IF intr /\ ~done
    THEN IF terminate_on_interrupt \in flags THEN "terminate"
         ELSE IF pid = 0 THEN "terminate"
         ELSE "signal"
    ELSE "continue"

\* join(), lines 441-482: the wait timed out.  TerminateProcess ends a
\* running child with 0xffff and does nothing to one that has exited.
JoinTimeout ==
    /\ pc = "timeout"
    /\ \E pid \in {0, 1} :
        LET what == on_timeout(self.flags_, interrupt, interrupted, pid)
        IN  /\ last_pid' = IF asks_pid(self.flags_, interrupt, interrupted)
                           THEN <<pid>> ELSE last_pid
            /\ \/ /\ what = "terminate"
                  /\ terminated' = TRUE
                  /\ IF child = "running"
                     THEN /\ child' = "exited"
                          /\ childCode' = DWORD(0, KillCode)
                          /\ pipes' = [ch \in Streams |->
                                          close_writer(pipes[ch])]
                     ELSE UNCHANGED <<child, childCode, pipes>>
                  /\ handle' = FALSE
                  /\ outcome' = "returned"
                  /\ pc' = "idle"
                  /\ UNCHANGED <<interrupted, signals>>
               \/ /\ what = "signal"
                  /\ signals' = signals + 1
                  /\ interrupted' = TRUE
                  /\ pc' = "wait"
                  /\ UNCHANGED <<terminated, child, childCode, pipes, handle,
                                 outcome>>
               \/ /\ what = "continue"
                  /\ pc' = "wait"
                  /\ UNCHANGED <<terminated, child, childCode, pipes, handle,
                                 outcome, interrupted, signals>>
    /\ last_os' = [w |-> None, e |-> None]
    /\ UNCHANGED <<configVars, cmd_log, filter_calls, dtor, escaped,
                   interrupt, code_, wait_r, started, written,
                   log, msg, policy, polls, intRunning, intAtExit>>

Next ==
    \/ Run
    \/ Interrupt
    \/ ChildWrite
    \/ ChildExit
    \/ JoinBegin
    \/ Destroy
    \/ JoinWait
    \/ ReadStdout
    \/ ReadStderr
    \/ JoinExited
    \/ JoinTimeout

Spec == Init /\ [][Next]_vars

(***************************************************************************)
(* Claims about join() and exit_code().                                    *)
(***************************************************************************)
\* join() has ended after it fetched the child's exit code (line 414): the
\* wait was satisfied and the last read of the channels raised nothing
Judged == pc = "idle" /\ policy # None

\* the int i has the value of the DWORD d
SameNumber(i, d) == i >= 0 /\ i \div 2^16 = d[1] /\ i % 2^16 = d[2]

\* C1: without allow_failure and with the interrupt flag not set, a join()
\* that has fetched a nonzero exit code c fails fatally, with a message
\* that contains the process's name (the configured name, or the resolved
\* command when there is none) and the decimal digits of c.
C1_FatalNamesProcessAndCode ==
    (/\ Judged
     /\ ~interrupt
     /\ allow_failure \notin self.flags_
     /\ childCode # DWORD(0, 0))
    => /\ outcome = "fatal"
       /\ self.name_ # <<>> => Contains(msg, self.name_)
       /\ self.name_ = <<>> => Contains(msg, make_cmd(self))
       /\ Contains(msg, Returned \o dword_to_string(childCode))

\* a process without a name whose child exited with 7
C1_Witness ==
    /\ Judged
    /\ ~interrupt
    /\ outcome = "fatal"
    /\ self.name_ = <<>>
    /\ childCode = DWORD(0, 7)
    /\ msg = <<"\"", "b", "2", "\"", " ", "-", "q", " ", "r", "e", "t", "u",
               "r", "n", "e", "d", " ", "7">>

\* C2 as claimed: with allow_failure and the interrupt flag not set, a
\* join() that has fetched a nonzero exit code c returns normally and
\* exit_code() is c.
C2_ExitCodeIsC ==
    (/\ Judged
     /\ ~interrupt
     /\ allow_failure \in self.flags_
     /\ childCode # DWORD(0, 0))
    => /\ outcome = "returned"
       /\ SameNumber(exit_code(code_), childCode)

\* C2 as amended: with allow_failure and the interrupt flag not set, a
\* join() that has fetched a nonzero exit code c returns normally and
\* exit_code() is c as a signed 32-bit integer: c when c < 2^31, and
\* c - 2^32 otherwise.
C2_ExitCodeIsSignedC ==
    (/\ Judged
     /\ ~interrupt
     /\ allow_failure \in self.flags_
     /\ childCode # DWORD(0, 0))
    => /\ outcome = "returned"
       /\ childCode[1] < 2^15 => SameNumber(exit_code(code_), childCode)
       /\ childCode[1] >= 2^15 =>
             /\ exit_code(code_) < 0
             /\ SameNumber((exit_code(code_) + 2^30) + 2^30,
                           DWORD(childCode[1] - 2^15, childCode[2]))

\* an allowed failure with code 7
C2_Witness ==
    /\ Judged
    /\ ~interrupt
    /\ allow_failure \in self.flags_
    /\ childCode = DWORD(0, 7)
    /\ outcome = "returned"
    /\ exit_code(code_) = 7

\* C3 as claimed: with terminate_on_interrupt, once interrupt() was called
\* while the child was running, join() returns with the child forcibly
\* killed and without evaluating the exit-code policy.
C3_InterruptKills ==
    (/\ pc = "idle"
     /\ outcome = "returned"
     /\ terminate_on_interrupt \in self.flags_
     /\ intRunning)
    => /\ terminated
       /\ policy \in {None, "skipped"}

\* C3 as amended: with terminate_on_interrupt, once interrupt() was called
\* while the child was running, join() never sends the break signal and
\* never raises the exit-code error (it fails only on a wait or read
\* error); when it returns, either it terminated the child at a poll
\* timeout, or it observed that the child had exited on its own before
\* that poll, did not terminate it and did not judge its exit code.
C3_InterruptKillsOrSeesExit ==
    (/\ pc = "idle"
     /\ outcome # None
     /\ terminate_on_interrupt \in self.flags_
     /\ intRunning)
    => /\ signals = 0
       /\ outcome = "fatal" => msg \in {FailedToWait} \cup ReadErrors
       /\ outcome = "returned" =>
             \/ terminated /\ wait_r = "WAIT_TIMEOUT" /\ policy = None
             \/ /\ ~terminated
                /\ wait_r = "WAIT_OBJECT_0"
                /\ intAtExit
                /\ policy = "skipped"

\* join() killed a child that was interrupted while it ran
C3_Witness ==
    /\ pc = "idle"
    /\ outcome = "returned"
    /\ terminate_on_interrupt \in self.flags_
    /\ intRunning
    /\ terminated
    /\ child = "exited"
    /\ childCode = DWORD(0, KillCode)

\* C4: with the interrupt flag set and terminate_on_interrupt not set, one
\* join() call sends the break signal at most once, however many poll
\* timeouts follow and however often interrupt() is called.
C4_BreakSignalOnce == signals <= 1

\* the signal was sent once and two poll timeouts have followed
C4_Witness ==
    /\ signals = 1
    /\ polls >= 2
    /\ pc = "timeout"
    /\ interrupt
    /\ terminate_on_interrupt \notin self.flags_
    /\ child = "running"

\* C5: if the interrupt flag is set when join() comes to judge the exit it
\* observed, join() returns normally whatever the exit code and whether or
\* not allow_failure is set.
C5_InterruptedExitNotJudged ==
    (Judged /\ intAtExit) => outcome = "returned" /\ ~handle

\* a failure that is not allowed, not judged: the flag was set after the
\* child had exited with 7
C5_Witness ==
    /\ Judged
    /\ intAtExit
    /\ ~intRunning
    /\ allow_failure \notin self.flags_
    /\ childCode = DWORD(0, 7)
    /\ code_ = DWORD(0, 7)
    /\ outcome = "returned"

(***************************************************************************)
(* Claims about async_pipe.                                                *)
(***************************************************************************)
\* a step in which read() on the stream returned
ReadReturned(ch) ==
    IF ch = "stdout_pipe"
    THEN pc = "read_stdout" /\ pc' = "read_stderr"
    ELSE pc = "read_stderr" /\ pc' \in {"exited", "timeout"}

\* C6: a channel never has more than one outstanding read; a read() on a
\* channel with no request pending and no data, whose write end is open,
\* returns nothing and leaves the channel pending; a read() made while a
\* request is pending issues no request.
C6_OneOutstandingRead ==
    [][\A ch \in Streams :
          /\ pipes'[ch].outstanding <= 1
          /\ ReadReturned(ch) =>
                /\ (/\ ~pipes[ch].pending_
                    /\ pipes[ch].unread = <<>>
                    /\ child = "running")
                   => /\ log' = log
                      /\ pipes'[ch].pending_
                      /\ pipes'[ch].outstanding = 1
                /\ pipes[ch].pending_ =>
                      pipes'[ch].outstanding <= pipes[ch].outstanding]_vars

\* the last read of stdout found the request of an earlier read pending
C6_Witness ==
    /\ pc = "read_stderr"
    /\ wait_r = "WAIT_OBJECT_0"
    /\ pipes["stdout_pipe"].pending_
    /\ pipes["stdout_pipe"].outstanding = 1

(***************************************************************************)
(* Claims about run(), ~process and interrupt().                           *)
(***************************************************************************)
\* C11: in a dry run, run() logs the change of directory (when the process
\* has a working directory) and the resolved command and nothing else
\* happens: no channel is opened, no child exists, no handle is held; the
\* owning thread is never inside join()'s loop, whether join() is called
\* by the owner or by the destructor, and no error leaves any call.
C11_DryRunNeverSpawns ==
    dry =>
        /\ ~handle
        /\ child = "none"
        /\ pipes = [ch \in Streams |-> new_async_pipe]
        /\ pc = "idle"
        /\ escaped = <<>>
        /\ outcome = None
        /\ log = <<>>
        /\ ~started => cmd_log = <<>>
        /\ started =>
              /\ Len(cmd_log) = IF self.cwd_ = <<>> THEN 1 ELSE 2
              /\ cmd_log[Len(cmd_log)] =
                    <<"cmd", "debug", Prompt \o make_cmd(self)>>
              /\ self.cwd_ # <<>> =>
                    cmd_log[1] = <<"cmd", "debug", CdPrompt \o self.cwd_>>

\* a dry run of the process with a working directory, destroyed afterwards
C11_Witness ==
    /\ dry
    /\ started
    /\ destroyed
    /\ ~handle
    /\ cmd_log = <<<<"cmd", "debug", <<">", " ", "c", "d", " ", "s", "r", "c">>>>,
                   <<"cmd", "debug", <<">", " ", "\"", "b", "2", "\"", " ",
                                       "-", "q">>>>>>

\* C12: the destructor of a process that holds a child handle enters
\* join(), and no error raised by that join() (exit code, wait, channel
\* read) leaves the destructor.
C12_DestructorSwallows ==
    /\ [](dtor => escaped = <<>>)
    /\ [][(~dtor /\ dtor' /\ handle) => pc' = "wait"]_vars

\* the join() of the destructor failed on the exit code 7
C12_Witness ==
    /\ destroyed
    /\ outcome = "fatal"
    /\ childCode = DWORD(0, 7)
    /\ msg = returned_message(self, DWORD(0, 7))
    /\ escaped = <<>>

\* C13: whenever it is called, interrupt() sets the flag and touches
\* nothing else: the handle, the exit code, the channels, the
\* configuration, the child and the position of the owning thread stay as
\* they are.  The child is signalled or terminated only by join(), at a
\* poll timeout at which it finds the flag set.
C13_InterruptOnlySetsFlag ==
    [][/\ (interrupt' # interrupt \/ intRunning' # intRunning) =>
            /\ interrupt'
            /\ UNCHANGED <<self, handle, code_, pipes, pc, child, childCode,
                           signals, terminated, log, outcome, escaped>>
       /\ (signals' > signals \/ (terminated' /\ ~terminated)) =>
            /\ pc = "timeout"
            /\ interrupt]_vars

\* the flag was set while join() was polling a running child, which it has
\* not signalled or terminated yet
C13_Witness ==
    /\ interrupt
    /\ intRunning
    /\ child = "running"
    /\ pc = "read_stdout"
    /\ signals = 0
    /\ ~terminated

(***************************************************************************)
(* Claims about exit_code() after join().                                  *)
(***************************************************************************)
\* join() has returned, or has failed on the exit-code policy, and the
\* child is gone
JoinedTerminal ==
    /\ pc = "idle"
    /\ child = "exited"
    /\ \/ outcome = "returned"
       \/ outcome = "fatal" /\ policy = "fatal"

\* C14: once join() has returned, or has failed on the exit-code policy,
\* exit_code() is the code the child terminated with (as the int that
\* exit_code() makes of a DWORD), also when join() killed the child.
C14_ExitCodeIsChildsCode ==
    JoinedTerminal => exit_code(code_) = exit_code(childCode)

(***************************************************************************)
(* Claims about read_pipes.                                                *)
(***************************************************************************)
\* the stream's filter, if there is one, sets ignore for this line
Suppressed(ch, line) ==
    filter_of(ch) # None /\ filtered(ch, line).ignore

\* the line is in the log
Delivered(line) == \E j \in 1..Len(log) : log[j][3] = line

\* C15: when join() ends after it observed the child's exit, every line
\* the child wrote to either stream is in the log, unless the stream's
\* filter suppressed it.
C15_AllOutputLogged ==
    Judged =>
        \A ch \in Streams : \A n \in 1..written[ch] :
            Suppressed(ch, <<ch, n>>) \/ Delivered(<<ch, n>>)

\* the part of the log that was added by this step
Added == SubSeq(log', Len(log) + 1, Len(log'))

\* C16: in each iteration of join()'s loop the wait is followed by the
\* read of stdout, whose lines are logged in that step, then by the read
\* of stderr, whose lines are logged in that step, and only then by the
\* handling of the wait's result; the lines of one stream are in the log
\* in the order in which the child wrote them, which is the order in which
\* they are read.
C16_StdoutBeforeStderr ==
    /\ [](\A j, k \in 1..Len(log) :
            (j < k /\ log[j][3][1] = log[k][3][1])
            => log[j][3][2] < log[k][3][2])
    /\ [][/\ pc' # pc =>
                /\ pc = "wait" => pc' \in {"read_stdout", "idle"}
                /\ pc' = "read_stderr" => pc = "read_stdout"
                /\ pc' \in {"exited", "timeout"} => pc = "read_stderr"
                /\ pc = "read_stdout" =>
                      /\ pipes'["stderr_pipe"] = pipes["stderr_pipe"]
                      /\ \A i \in 1..Len(Added) :
                            Added[i][3][1] = "stdout_pipe"
                /\ pc = "read_stderr" =>
                      /\ pipes'["stdout_pipe"] = pipes["stdout_pipe"]
                      /\ \A i \in 1..Len(Added) :
                            Added[i][3][1] = "stderr_pipe"
          /\ log' # log => (pc \in {"read_stdout", "read_stderr"} /\ pc' # pc)]_vars

\* an iteration has logged a line of stdout and then a line of stderr
C16_Witness ==
    /\ pc = "timeout"
    /\ self.name_ = <<>>
    /\ log = <<<<"std_out", "trace", <<"stdout_pipe", 1>>>>,
               <<"std_err", "error", <<"stderr_pipe", 1>>>>>>

\* the reason tag and the configured level of a stream
StreamReason(ch) == IF ch = "stdout_pipe" THEN "std_out" ELSE "std_err"
StreamLevel(ch) ==
    IF ch = "stdout_pipe" THEN self.stdout_level_ ELSE self.stderr_level_

\* the lines that were read from the stream: written, and no longer in the
\* pipe or in the buffer of a pending request
Taken(ch) ==
    {<<ch, n>> : n \in 1..written[ch]}
    \ ({pipes[ch].unread[i] : i \in 1..Len(pipes[ch].unread)}
        \cup {pipes[ch].buffer_[i] : i \in 1..Len(pipes[ch].buffer_)})

\* C17: a stream with a filter hands each line read from it to the filter
\* once, with the stream's reason, its configured level and ignore unset;
\* the line is in the log, with its text, exactly when the filter did not
\* set ignore.  A stream without a filter has every line read from it in
\* the log, with the stream's reason and configured level.
C17_FilterDecidesForwarding ==
    \A ch \in Streams :
        LET calls == filter_calls[ch]
            hook == filter_of(ch)
        IN  /\ \A j \in 1..Len(log) :
                  log[j][3][1] = ch => log[j][3] \in Taken(ch)
            /\ hook # None =>
                  /\ {calls[i].line : i \in 1..Len(calls)} = Taken(ch)
                  /\ \A i, j \in 1..Len(calls) :
                        calls[i].line = calls[j].line => i = j
                  /\ \A i \in 1..Len(calls) :
                        /\ calls[i].r = StreamReason(ch)
                        /\ calls[i].lv = StreamLevel(ch)
                        /\ calls[i].ignore = FALSE
                        /\ Delivered(calls[i].line)
                              <=> ~call_filter(hook, calls[i]).ignore
            /\ hook = None =>
                  /\ calls = <<>>
                  /\ \A line \in Taken(ch) :
                        \E j \in 1..Len(log) :
                            log[j] = <<StreamReason(ch), StreamLevel(ch), line>>

\* the filter of stdout has seen two lines and has suppressed the first
C17_Witness ==
    /\ self.stdout_filter_ = "f1"
    /\ Len(filter_calls["stdout_pipe"]) = 2
    /\ filter_calls["stdout_pipe"][1] =
          [line |-> <<"stdout_pipe", 1>>, r |-> "std_out", lv |-> "trace",
           ignore |-> FALSE]
    /\ log = <<<<"std_out", "trace", <<"stdout_pipe", 2>>>>>>

(***************************************************************************)
(* Claims about the errors of read().                                      *)
(***************************************************************************)
\* a step in which the owning thread makes the read() of the stream
ReadStep(ch) ==
    /\ pc = IF ch = "stdout_pipe" THEN "read_stdout" ELSE "read_stderr"
    /\ pc' # pc

\* the step ends join() with a fatal error of read()
ReadRaises ==
    /\ pc' = "idle"
    /\ outcome' = "fatal"
    /\ msg' \in ReadErrors

\* the step returns from read() with nothing and without an error
ReadReturnsEmpty ==
    /\ pc' # "idle"
    /\ log' = log
    /\ UNCHANGED <<outcome, msg, escaped>>

\* C18: a read() that is answered ERROR_BROKEN_PIPE, by ReadFile or by the
\* check of the pending request, returns nothing and raises no error; a
\* check of a pending request that finds it incomplete, the wait on its
\* event having timed out, returns nothing and leaves the request pending;
\* any other error code of ReadFile or of the check is a fatal error, and
\* read() raises in no other case than these and a failed wait on the
\* event.
C18_BrokenPipeIsEndOfStream ==
    [][\A ch \in Streams : ReadStep(ch) =>
          LET os == last_os'
              other == os.e \notin {None, "ok", "ERROR_IO_PENDING",
                                    "ERROR_BROKEN_PIPE",
                                    "ERROR_IO_INCOMPLETE", "WAIT_TIMEOUT"}
          IN  /\ (os.w = None) = ~pipes[ch].pending_
              /\ os.e = "ERROR_BROKEN_PIPE" => ReadReturnsEmpty
              /\ (os.e = "ERROR_IO_INCOMPLETE"
                  \/ (os.w = "WAIT_TIMEOUT" /\ ~other)) =>
                    /\ ReadReturnsEmpty
                    /\ pipes'[ch].pending_
              /\ other => ReadRaises
              /\ ReadRaises <=> (other \/ os.w = "WAIT_FAILED")]_vars

\* the check of the pending request of stdout found the pipe broken, and
\* join() went on to read stderr
C18_Witness ==
    /\ pc = "read_stderr"
    /\ last_os = [w |-> "WAIT_OBJECT_0", e |-> "ERROR_BROKEN_PIPE"]
    /\ pipes["stdout_pipe"].pending_
    /\ child = "exited"
    /\ outcome = None

(***************************************************************************)
(* Claims about the handling of the interrupt in join().                   *)
(***************************************************************************)
\* C19: the handling of a poll timeout raises no error.  When it finds the
\* interrupt flag set for the first time in this join() and
\* terminate_on_interrupt is not set: if GetProcessId returned 0, join()
\* terminates the child, sends no signal and ends without an error;
\* otherwise it sends the break signal, keeps the handle and waits again.
\* A join() that has sent the signal returns only after it has observed
\* the child's exit.
C19_NoPidMeansKill ==
    /\ [][(pc = "timeout" /\ pc' # pc) =>
            /\ outcome' # "fatal"
            /\ UNCHANGED <<msg, escaped>>
            /\ (/\ interrupt
                /\ ~interrupted
                /\ terminate_on_interrupt \notin self.flags_) =>
                  IF last_pid' = <<0>>
                  THEN /\ terminated'
                       /\ child' = "exited"
                       /\ signals' = signals
                       /\ ~handle'
                       /\ pc' = "idle"
                       /\ outcome' = "returned"
                  ELSE /\ signals' = signals + 1
                       /\ terminated' = terminated
                       /\ child' = child
                       /\ handle'
                       /\ pc' = "wait"]_vars
    /\ []((pc = "idle" /\ outcome = "returned" /\ signals > 0) =>
            (child = "exited" /\ policy # None))

\* the process id was 0: the running child was terminated, no signal sent
C19_Witness ==
    /\ pc = "idle"
    /\ outcome = "returned"
    /\ terminate_on_interrupt \notin self.flags_
    /\ last_pid = <<0>>
    /\ terminated
    /\ signals = 0
    /\ childCode = DWORD(0, KillCode)

(***************************************************************************)
(* Claims about args().                                                    *)
(***************************************************************************)
RECURSIVE ArgEach(_, _, _, _)
\* the process after arg(e, f) was called for each element e, in order
ArgEach(p, v, f, trace) ==
    IF v = <<>> THEN p
    ELSE ArgEach(arg(p, <<>>, "string", v[1], f, trace),
                 SubSeq(v, 2, Len(v)), f, trace)

\* C20: after args(v, f) with a collection v of strings, the command text
\* is the one that calling arg(e, f) for each element e of v, in order,
\* would have given.
C20_ArgsIsArgPerElement ==
    lastArgs # <<>> =>
        LET a == lastArgs[1]
        IN  self.cmd_ =
              ArgEach([self EXCEPT !.cmd_ = a.before], a.v, a.f, a.trace).cmd_


(***************************************************************************)
(* Claims about the handle after join().                                   *)
(***************************************************************************)
\* a join() that found a handle has ended: it returned, killed the child
\* and returned, or bailed out
JoinEnded == pc = "idle" /\ outcome # None

\* C21: whenever join() has ended, by a normal return, a forced kill, a
\* fatal exit code, a fatal wait or a fatal error of a channel read, the
\* handle of the child is released, so that every later join(), that of
\* the destructor included, returns at once.
C21_JoinReleasesHandle == JoinEnded => ~handle

====
